---- MODULE Spec2Model ----
(***************************************************************************)
(* camouflage-grpc: the four RPC shape handlers of CamoflageGrpcHandler,   *)
(* the response directive processor (processResponse), the metrics         *)
(* recorder (collectMetrics) and the hook registry (addHook).              *)
(*                                                                         *)
(* JavaScript runs one piece of code at a time.  The variable cur names    *)
(* the listener or handler invocation (a "task") whose synchronous code is *)
(* running; every await gives the control back (cur = None) and a          *)
(* suspended task resumes only when nothing else runs.                     *)
(***************************************************************************)
EXTENDS Integers, Sequences, FiniteSets, TLC

VARIABLES
    hooks,      \* CamoflageGrpc.hooks: path -> event -> list of callbacks
    regLog,     \* history: the addHook calls made, in order
    phase,      \* "setup" before the call is dispatched, "serving" after
    call,       \* the call being served: shape, path, mock file
    tasks,      \* the handler / listener invocations of the call
    cur,        \* the task whose synchronous code is running, or None
    now,        \* the clock read by process.hrtime and by the timers
    timers,     \* the pending setTimeout calls of sleep, in call order
    requests,   \* the accumulation buffer of the streaming handlers
    startTime,  \* bidiStreamingHandler's shared `let startTime`
    nmsg,       \* inbound messages delivered so far
    ended,      \* the inbound stream has ended ('end' was emitted)
    log,        \* history: what the call did on the transport, in order
    metrics,    \* the samples recorded by collectMetrics
    pdoc,       \* the mock document object handed to processResponse
    presults,   \* the results processResponse returned for pdoc, in order
    capIn,      \* the context the capture helper is invoked with
    capOut      \* how that invocation of the capture helper ended

hvars == <<hooks, regLog, phase, call, tasks, cur, now, timers, requests,
           startTime, nmsg, ended, log, metrics>>
pvars == <<pdoc, presults, capIn, capOut>>
vars == <<hvars, pvars>>

-----------------------------------------------------------------------------
(* Bounds of the model *)

MaxHooks == 2
MaxMsgs == 2
MaxSegs == 2
MaxDelay == 1

(* grpc.status codes *)
OK == 0
NOT_FOUND == 5
INTERNAL == 13
\* no task: the value of cur while no synchronous code runs
None == 0 - 1

-----------------------------------------------------------------------------
(* JSON values as JavaScript sees them *)

Null == [t |-> "null"]
Num(n) == [t |-> "num", n |-> n]
Str(s) == [t |-> "str", s |-> s]
Arr(a) == [t |-> "arr", a |-> a]
Obj(o) == [t |-> "obj", o |-> o]
Buf(b) == [t |-> "buf", b |-> b]

\* JavaScript truthiness: null, 0 and "" are falsy, every object is truthy
Truthy(v) ==
    CASE v.t = "null" -> FALSE
      [] v.t = "num" -> v.n # 0
      [] v.t = "str" -> v.s # <<>>
      [] OTHER -> TRUE

\* obj.key of a JavaScript object held as a function: Null stands for undefined
Get(o, k) == IF k \in DOMAIN o THEN o[k] ELSE Null

\* a || b
OrElse(a, b) == IF Truthy(a) THEN a ELSE b

\* delete obj.key
Delete(o, k) == [x \in DOMAIN o \ {k} |-> o[x]]

-----------------------------------------------------------------------------
(* The response directive processor *)

\* A metadata key is held as its list of dash-separated parts:
\* <<"trace", "bin">> is the key "trace-bin".
EndsWithBin(key) == Len(key) >= 2 /\ key[Len(key)] = "bin"

\* Buffer.from(s, "base64"): s is held as the list of its base64 digits
\* (0..63); four digits give three bytes, a trailing group of two or three
\* digits gives one or two bytes, a single trailing digit gives none.
RECURSIVE Base64Decode(_)
Base64Decode(s) ==
    IF Len(s) < 2 THEN <<>>
    ELSE LET b1 == s[1] * 4 + (s[2] \div 16)
             b2 == (s[2] % 16) * 16 + (s[3] \div 4)
             b3 == (s[3] % 4) * 64 + s[4]
         IN  IF Len(s) = 2 THEN <<b1>>
             ELSE IF Len(s) = 3 THEN <<b1, b2>>
             ELSE <<b1, b2, b3>> \o Base64Decode(SubSeq(s, 5, Len(s)))

\* every value added as it is
BuildMetadataRaw(map) == Obj([key \in DOMAIN map.o |-> map.o[key]])

\* new grpc.Metadata() filled by the for-in loop over the keys of the map
BuildMetadata(map) ==
    Obj([key \in DOMAIN map.o |->
            IF EndsWithBin(key)
            THEN Buf(Base64Decode(map.o[key].s))
            ELSE map.o[key]])

\* processResponse(response).  The deletes act on the object passed in and
\* processedResponse is that same object, so the field processedResponse
\* of the result is also the state of the caller's object after the call.
processResponse(response) ==
    LET delay == OrElse(Get(response, "delay"), Num(0))
        r1 == Delete(response, "delay")
        error == OrElse(Get(r1, "error"), Null)
        r2 == Delete(r1, "error")
        md == Get(r2, "metadata")
        hasMd == Truthy(md)
        headerMetadata == IF hasMd THEN OrElse(Get(md.o, "headers"), Null) ELSE Null
        trailerMetadata == IF hasMd THEN OrElse(Get(md.o, "trailers"), Null) ELSE Null
        r3 == IF hasMd THEN Delete(r2, "metadata") ELSE r2
    IN  [delay |-> delay,
         error |-> error,
         headers |-> IF Truthy(headerMetadata) THEN BuildMetadata(headerMetadata) ELSE Null,
         trailers |-> IF Truthy(trailerMetadata) THEN BuildMetadata(trailerMetadata) ELSE Null,
         processedResponse |-> r3]

\* collectMetrics: the sample recorded for (startTime, error, method, type)
SampleCode(error) ==
    IF Truthy(error) /\ error.t = "obj" /\ Truthy(Get(error.o, "code"))
    THEN Get(error.o, "code").n
    ELSE OK

collectMetrics(start, error, grpc_method, grpc_type) ==
    [code |-> SampleCode(error), method |-> grpc_method, type |-> grpc_type,
     start |-> start]

-----------------------------------------------------------------------------
(* The capture helper: RequestHelper of helpers/Capture.ts *)

\* A string is held as the list of its tokens: a token is one character, or
\* a whole name such as "id".

\* JSON.stringify(request, null, 2) of an object with at most one key, whose
\* value is a string
Stringify(request) ==
    IF DOMAIN request.o = {} THEN <<"{", "}">>
    ELSE LET k == CHOOSE x \in DOMAIN request.o : TRUE
         IN  <<"{", "\n", " ", " ", "\"", k, "\"", ":", " ", "\"">>
                 \o request.o[k].s \o <<"\"", "\n", "}">>

\* new RegExp(selector) accepts the pattern: the groups are balanced.  The
\* patterns are made of "(" and ")", the end anchor "$", the wildcard "." and
\* literal tokens.
RECURSIVE Depths(_, _)
Depths(pattern, d) ==
    IF pattern = <<>> THEN <<d>>
    ELSE <<d>> \o Depths(Tail(pattern),
                         CASE Head(pattern) = "(" -> d + 1
                           [] Head(pattern) = ")" -> d - 1
                           [] OTHER -> d)

RegExpValid(pattern) ==
    LET ds == Depths(pattern, 0)
    IN  /\ \A i \in 1..Len(ds) : ds[i] >= 0
        /\ ds[Len(ds)] = 0

\* the number of tokens of the body consumed before token i of the pattern
Consumed(pattern, i) ==
    Cardinality({j \in 1..(i - 1) : pattern[j] \notin {"(", ")", "$"}})

\* the pattern matches the body from position s on
MatchesAt(pattern, body, s) ==
    \A i \in 1..Len(pattern) :
        LET at == s + Consumed(pattern, i)
        IN  CASE pattern[i] \in {"(", ")"} -> TRUE
              [] pattern[i] = "$" -> at = Len(body) + 1
              [] pattern[i] = "." -> at <= Len(body) /\ body[at] # "\n"
              [] OTHER -> at <= Len(body) /\ body[at] = pattern[i]

\* regex.exec(body): Null when nothing matches, else the match, of which
\* only match[1] is read: the text of the first group, undefined (Null)
\* when the pattern has no group
RegExec(pattern, body) ==
    LET starts == {s \in 1..(Len(body) + 1) : MatchesAt(pattern, body, s)}
    IN  IF starts = {} THEN Null
        ELSE LET s == CHOOSE x \in starts : \A y \in starts : x <= y
                 opens == {i \in 1..Len(pattern) : pattern[i] = "("}
             IN  IF opens = {} THEN Arr(<<Null>>)
                 ELSE LET o == CHOOSE x \in opens : \A y \in opens : x <= y
                          ds == Depths(pattern, 0)
                          closes == {i \in (o + 1)..Len(pattern) :
                                        pattern[i] = ")" /\ ds[i + 1] = ds[o]}
                          c == CHOOSE x \in closes : \A y \in closes : x <= y
                      IN  Arr(<<Str(SubSeq(body, s + Consumed(pattern, o),
                                           s + Consumed(pattern, c) - 1))>>)

\* jsonpath.query(request, selector): the selectors are "$" followed by
\* member steps "." name; any other text makes the library throw
JsonPathValid(selector) ==
    /\ Len(selector) % 2 = 1
    /\ selector[1] = "$"
    /\ \A i \in 2..Len(selector) :
          IF i % 2 = 0 THEN selector[i] = "."
          ELSE selector[i] \notin {"$", ".", "(", ")"}

RECURSIVE JsonPathQuery(_, _)
JsonPathQuery(value, steps) ==
    IF steps = <<>> THEN <<value>>
    ELSE IF value.t = "obj" /\ steps[2] \in DOMAIN value.o
    THEN JsonPathQuery(value.o[steps[2]], SubSeq(steps, 3, Len(steps)))
    ELSE <<>>

Returns(v) == [k |-> "return", v |-> v]
Raises(e) == [k |-> "raise", v |-> Str(<<e>>)]

\* metadata.get(key): the values held for the key, [] when there is none;
\* metadata is undefined when the context has no metadata
MetadataGet(metadata, key) ==
    IF metadata.t = "null" THEN Raises("TypeError")
    ELSE Returns(OrElse(IF key.s \in DOMAIN metadata.o THEN metadata.o[key.s] ELSE Arr(<<>>),
                        Null))

\* RequestHelper(context): context.hash holds from, key, using, selector
\* (Null when the parameter is not given), context.data.root holds request
\* and metadata
RequestHelper(context) ==
    LET hash == context.hash
        request == context.request
        metadata == context.metadata
    IN  CASE hash.from = Str(<<"metadata">>) ->
                IF ~Truthy(hash.key) THEN Returns(Null)
                ELSE MetadataGet(metadata, hash.key)
          [] hash.from = Str(<<"request">>) ->
                IF ~Truthy(hash.using) \/ ~Truthy(hash.selector) THEN Returns(Null)
                ELSE CASE hash.using = Str(<<"regex">>) ->
                            IF ~RegExpValid(hash.selector.s) THEN Raises("SyntaxError")
                            ELSE LET match == RegExec(hash.selector.s, Stringify(request))
                                 IN  IF Truthy(match) THEN Returns(match.a[1])
                                     ELSE Returns(Null)
                       [] hash.using = Str(<<"jsonpath">>) ->
                            IF JsonPathValid(hash.selector.s)
                            THEN Returns(Arr(JsonPathQuery(request,
                                        SubSeq(hash.selector.s, 2, Len(hash.selector.s)))))
                            ELSE Returns(Null)
                       [] OTHER -> Returns(Null)
          [] OTHER -> Returns(Null)

\* the contexts the helper is invoked with
FromValues == {Null, Str(<<"metadata">>), Str(<<"request">>), Str(<<"body">>)}
KeyValues == {Null, Str(<<>>), Str(<<"k">>), Str(<<"z">>)}
UsingValues == {Null, Str(<<"regex">>), Str(<<"jsonpath">>), Str(<<"xpath">>)}
SelectorValues ==
    {Null, Str(<<>>), Str(<<"(", "a", ")">>), Str(<<"a">>), Str(<<"(", "a">>),
     Str(<<")">>), Str(<<"(", "z", ")">>), Str(<<"$", ".", "id">>),
     Str(<<"$", ".", "zz">>), Str(<<"$", ".">>), Str(<<"id", ".", "(", ".", ")">>)}
CallMetadata == {Null, Obj(<<"k">> :> Arr(<<Str(<<"v">>)>>))}
Requests == {Obj(<<>>), Obj([id |-> Str(<<"a">>)])}

Contexts ==
    [hash : [from : FromValues, key : KeyValues, using : UsingValues,
             selector : SelectorValues],
     request : Requests, metadata : CallMetadata]

NoContext ==
    [hash |-> [from |-> Null, key |-> Null, using |-> Null, selector |-> Null],
     request |-> Obj(<<>>), metadata |-> Null]
NotCalled == [k |-> "none", v |-> Null]

-----------------------------------------------------------------------------
(* Mock documents *)

HeaderMap == Obj((<<"x">> :> Str(<<1, 2>>)) @@ (<<"x", "bin">> :> Str(<<16, 16, 5, 0>>)))

TrailerMap == Obj((<<"bin">> :> Str(<<3>>)) @@ (<<"y", "bin">> :> Str(<<1, 2, 4>>)))

MetadataValues ==
    {Null, Obj(<<>>), Obj([headers |-> HeaderMap]), Obj([trailers |-> TrailerMap]),
     Obj([headers |-> HeaderMap, trailers |-> TrailerMap])}

DelayValues == {Null} \cup {Num(d) : d \in 0..MaxDelay}
ErrorValues == {Null, Obj([code |-> Num(3)])}
PayloadValues == {Num(1)}

Fields(K) ==
    [K -> MetadataValues \cup DelayValues \cup ErrorValues \cup PayloadValues]

\* the well-formed mock documents: each directive absent, empty or present
Docs ==
    {d \in UNION {Fields(K) : K \in SUBSET {"delay", "error", "metadata", "a"}} :
        /\ "delay" \in DOMAIN d => d["delay"] \in DelayValues
        /\ "error" \in DOMAIN d => d["error"] \in ErrorValues
        /\ "metadata" \in DOMAIN d => d["metadata"] \in MetadataValues
        /\ "a" \in DOMAIN d => d["a"] \in PayloadValues}

\* the documents the mock files of the served call are made of
\* a payload alone, and a payload with every directive
PlainDoc == [a |-> Num(1)]
FullDoc(d) ==
    [a |-> Num(1), delay |-> Num(d), error |-> Obj([code |-> Num(3)]),
     metadata |-> Obj([headers |-> HeaderMap, trailers |-> HeaderMap])]
CallDocs == {PlainDoc} \cup {FullDoc(d) : d \in 1..MaxDelay}

\* One part of the rendered text of a mock file: text that JSON.parse turns
\* into a document, text JSON.parse rejects, or (bidi `data` / `end`) a key
\* the document does not have.
DocSeg(d) == [k |-> "doc", doc |-> d]
BadSeg == [k |-> "bad", doc |-> <<>>]
AbsentSeg == [k |-> "absent", doc |-> <<>>]
Segments == {DocSeg(d) : d \in CallDocs} \cup {BadSeg}

SeqsUpTo(S, n) == UNION {[1..m -> S] : m \in 1..n}

\* The mock file of a method path, as its rendering behaves: helpers.parse
\* throws, or yields the parts in segs.
Mocks(shape) ==
    {[throws |-> TRUE, segs |-> <<>>]} \cup
    {[throws |-> FALSE, segs |-> ss] : ss \in
        CASE shape = "server-stream" -> SeqsUpTo(Segments, MaxSegs)
          [] shape = "bidi-stream" ->
                {<<BadSeg, AbsentSeg>>} \cup
                ((Segments \ {BadSeg}) \cup {AbsentSeg}) \X
                ((Segments \ {BadSeg}) \cup {AbsentSeg})
          [] OTHER -> SeqsUpTo(Segments, 1)}
NoMock == [throws |-> FALSE, segs |-> <<>>]

\* helpers.parse(template, {request, metadata}) then JSON.parse: the parsed
\* document carries the request it was rendered against in the field req
Render(seg, request) == seg.doc @@ [req |-> request]

-----------------------------------------------------------------------------
(* The hook registry *)

Paths == {"pkg.Svc/A", "pkg.Svc/B", "pkg.Svc/C", "pkg.Other/A"}
\* the method the served call targets
ServedPath == "pkg.Svc/A"
Events == {"onRequest", "beforeResponse", "afterResponse"}

\* this.hooks[handlerPath]?.[event] || []
HooksFor(path, event) ==
    IF path \in DOMAIN hooks /\ event \in DOMAIN hooks[path]
    THEN hooks[path][event]
    ELSE <<>>

\* unshift in place of push
RegisteredFirst(list, fn) == <<fn>> \o list

\* this.hooks[fullPath][event]?.push(fn)
Registered(list, fn) == Append(list, fn)

\* creating the event list drops the lists the path already has
addHookFresh(fullPath, event) ==
    /\ phase = "setup"
    /\ Len(regLog) < MaxHooks
    /\ LET fn == Len(regLog) + 1
           h1 == IF fullPath \in DOMAIN hooks THEN hooks ELSE hooks @@ (fullPath :> <<>>)
           e1 == IF event \in DOMAIN h1[fullPath]
                 THEN h1[fullPath]
                 ELSE (event :> <<>>)
       IN  /\ hooks' = [h1 EXCEPT ![fullPath] =
                            [e1 EXCEPT ![event] = Registered(e1[event], fn)]]
           /\ regLog' = Append(regLog, [path |-> fullPath, event |-> event, fn |-> fn])
    /\ UNCHANGED <<phase, call, tasks, cur, now, timers, requests, startTime,
                   nmsg, ended, log, metrics, pvars>>

\* addHook(fullPath, event, fn): fn is a fresh callback
addHook(fullPath, event) ==
    /\ phase = "setup"
    /\ Len(regLog) < MaxHooks
    /\ LET fn == Len(regLog) + 1
           h1 == IF fullPath \in DOMAIN hooks THEN hooks ELSE hooks @@ (fullPath :> <<>>)
           e1 == IF event \in DOMAIN h1[fullPath]
                 THEN h1[fullPath]
                 ELSE h1[fullPath] @@ (event :> <<>>)
       IN  /\ hooks' = [h1 EXCEPT ![fullPath] =
                            [e1 EXCEPT ![event] = Registered(e1[event], fn)]]
           /\ regLog' = Append(regLog, [path |-> fullPath, event |-> event, fn |-> fn])
    /\ UNCHANGED <<phase, call, tasks, cur, now, timers, requests, startTime,
                   nmsg, ended, log, metrics, pvars>>

-----------------------------------------------------------------------------
(* Tasks: the invocations of the async handlers and listeners *)

\* the response of a task that has not processed a document yet
NoRes ==
    [delay |-> Num(0), error |-> Null, headers |-> Null, trailers |-> Null,
     processedResponse |-> <<>>]

\* kind: which async function; pc: where it stands; hi: hooks of the current
\* loop already completed; await: a hook was called and has not settled;
\* n: the inbound message or the segment index; res: what processResponse
\* returned; exc: the caught exception; wake: when its sleep ends;
\* start: its own `const startTime`, or (bidi) the time it assigned to the
\* shared startTime
NewTask(kind, pc, n) ==
    [kind |-> kind, pc |-> pc, hi |-> 0, await |-> FALSE, n |-> n, res |-> NoRes,
     exc |-> Null, wake |-> 0, start |-> now]

\* what a thrown Error looks like to collectMetrics: an object without code
PlainError == Obj([message |-> Str(<<>>)])
HookErrors == {PlainError}

\* { code: grpc.status.X, message: ... }
StatusObj(code) == Obj([code |-> Num(code)])

\* the status code the transport sends for the error given to callback / emit
StatusOf(error) == IF Truthy(error) THEN SampleCode(error) ELSE OK

Ev(op, t, ev, n, v) == [op |-> op, t |-> t, ev |-> ev, n |-> n, v |-> v]

\* A task that suspends or finishes while forEach is still calling the
\* callbacks gives the control back to forEach, otherwise to the event loop.
Yield(t) ==
    IF t # 0 /\ 0 \in DOMAIN tasks /\ tasks[0].pc = "forEach" THEN 0 ELSE None

\* the response is sent right after the beforeResponse hooks
AfterLoopNoSleep(kind, event) ==
    CASE event = "onRequest" /\ kind \in {"unary", "server-stream"} -> "resolve"
      [] event = "onRequest" /\ kind = "client-data" -> "push"
      [] event = "onRequest" /\ kind = "bidi-data" -> "handle"
      [] event = "beforeResponse" -> "send"
      [] OTHER -> "done"

\* the pc after the last hook of the loop of `event` in a task of `kind`
AfterLoop(kind, event) ==
    CASE event = "onRequest" /\ kind \in {"unary", "server-stream"} -> "resolve"
      [] event = "onRequest" /\ kind = "client-data" -> "push"
      [] event = "onRequest" /\ kind = "bidi-data" -> "handle"
      [] event = "beforeResponse" -> "sleep"
      [] OTHER -> "done"

\* where a raising hook takes the task: into the catch block when the loop
\* stands inside a try of the same async function, else out of the function
OnRaise(kind, event) ==
    IF event # "onRequest" /\ kind \in {"unary", "client-end", "bidi-data"}
    THEN "catch"
    ELSE "rejected"

\* the second argument the hooks of the task get
HookData(t) ==
    CASE tasks[t].kind \in {"client-data", "bidi-data"} -> Num(tasks[t].n)
      [] tasks[t].kind = "client-end" -> Arr(requests)
      [] OTHER -> Null

\* the samples among the events evs
Samples(evs) ==
    LET ms == SelectSeq(evs, LAMBDA e : e.op = "metrics")
    IN  [i \in 1..Len(ms) |-> ms[i].v]

\* one step of task t: its new record, who runs next, what it did
Step(t, task, c, evs) ==
    /\ tasks' = [tasks EXCEPT ![t] = task]
    /\ cur' = c
    /\ log' = log \o evs
    /\ metrics' = metrics \o Samples(evs)
    /\ UNCHANGED <<hooks, regLog, phase, call, now, nmsg, ended, pvars>>

\* for (i...) await hooks[i](call, data, res): the call of hook i
HookInvoke(t) ==
    /\ t \in DOMAIN tasks
    /\ cur = t
    /\ tasks[t].pc \in Events
    /\ LET list == HooksFor(call.path, tasks[t].pc)
       IN  /\ tasks[t].hi < Len(list)
           /\ Step(t, [tasks[t] EXCEPT !.await = TRUE], Yield(t),
                   <<Ev("hookStart", t, tasks[t].pc, list[tasks[t].hi + 1], HookData(t))>>)
    /\ UNCHANGED <<timers, requests, startTime>>

\* the awaited hook completes: the loop goes on with the next one
HookResolves(t) ==
    /\ cur = None
    /\ t \in DOMAIN tasks
    /\ tasks[t].await
    /\ LET list == HooksFor(call.path, tasks[t].pc)
       IN  Step(t, [tasks[t] EXCEPT !.await = FALSE, !.hi = @ + 1], t,
                <<Ev("hookEnd", t, tasks[t].pc, list[tasks[t].hi + 1], Null)>>)
    /\ UNCHANGED <<timers, requests, startTime>>

\* the awaited hook raises
HookRejects(t, exc) ==
    /\ cur = None
    /\ t \in DOMAIN tasks
    /\ tasks[t].await
    /\ LET list == HooksFor(call.path, tasks[t].pc)
           to == OnRaise(tasks[t].kind, tasks[t].pc)
       IN  Step(t, [tasks[t] EXCEPT !.await = FALSE, !.pc = to, !.exc = exc],
                IF to = "catch" THEN t ELSE None,
                <<Ev("hookRaise", t, tasks[t].pc, list[tasks[t].hi + 1], Null)>>)
    /\ UNCHANGED <<timers, requests, startTime>>

\* the loop condition i < hooks.length fails (or hooks.length = 0)
HookLoopExit(t) ==
    /\ t \in DOMAIN tasks
    /\ cur = t
    /\ tasks[t].pc \in Events
    /\ tasks[t].hi = Len(HooksFor(call.path, tasks[t].pc))
    /\ LET to == AfterLoop(tasks[t].kind, tasks[t].pc)
       IN  Step(t, [tasks[t] EXCEPT !.pc = to, !.hi = 0],
                IF to = "done" THEN Yield(t) ELSE t, <<>>)
    /\ UNCHANGED <<timers, requests, startTime>>

\* await sleep(delay): setTimeout(resolve, delay)
Sleep(t) ==
    /\ t \in DOMAIN tasks
    /\ cur = t
    /\ tasks[t].pc = "sleep"
    /\ Step(t, [tasks[t] EXCEPT !.pc = "sleeping", !.wake = now + tasks[t].res.delay.n],
            Yield(t), <<Ev("sleep", t, "", tasks[t].res.delay.n, Num(now))>>)
    /\ timers' = Append(timers, t)
    /\ UNCHANGED <<requests, startTime>>

Remove(seq, x) == SelectSeq(seq, LAMBDA y : y # x)
Index(seq, x) == CHOOSE i \in 1..Len(seq) : seq[i] = x

\* timer u fires before timer t: it is due earlier, or due at the same time
\* with the same duration and was set earlier
FiresBefore(u, t) ==
    \/ tasks[u].wake < tasks[t].wake
    \/ /\ tasks[u].wake = tasks[t].wake
       /\ tasks[u].res.delay = tasks[t].res.delay
       /\ Index(timers, u) < Index(timers, t)

Sleeping == {timers[i] : i \in 1..Len(timers)}

\* the timer of t expires and the task goes on after its await sleep(delay)
TimerFires(t) ==
    /\ cur = None
    /\ t \in Sleeping
    /\ tasks[t].wake <= now
    /\ \A u \in Sleeping \ {t} : ~FiresBefore(u, t)
    /\ Step(t, [tasks[t] EXCEPT !.pc = "send"], t, <<Ev("wake", t, "", 0, Num(now))>>)
    /\ timers' = Remove(timers, t)
    /\ UNCHANGED <<requests, startTime>>

-----------------------------------------------------------------------------
(* What the handlers do on the transport *)

\* if (headers) call.sendMetadata(headers)
SendHeaders(t, res) ==
    IF Truthy(res.headers) THEN <<Ev("sendMetadata", t, "headers", 0, res.headers)>> ELSE <<>>

\* if (trailers) callback(error, processedResponse, trailers)
\* else callback(error, processedResponse)
Callback(t, error, payload, trailers) ==
    <<Ev("callback", t, IF Truthy(trailers) THEN "trailers" ELSE "", StatusOf(error), payload)>>

\* if (error) call.emit('error', error); call.write(processedResponse);
\* if (trailers) call.sendMetadata(trailers)
WriteChunk(t, res) ==
    (IF Truthy(res.error) THEN <<Ev("emitError", t, "", StatusOf(res.error), Null)>> ELSE <<>>)
    \o <<Ev("write", t, "", tasks[t].n, res.processedResponse)>>
    \o (IF Truthy(res.trailers)
        THEN <<Ev("sendMetadata", t, "trailers", 0, res.trailers)>>
        ELSE <<>>)

\* call.write(error) of the not-found branches of the streaming handlers
WriteError(t, error) == <<Ev("write", t, "error", StatusOf(error), error.o)>>

\* this.collectMetrics(startTime, error, handlerPath, type)
Metrics(t, start, error, type) ==
    <<Ev("metrics", t, type, SampleCode(error), collectMetrics(start, error, call.path, type))>>

EmitError(t, error) == <<Ev("emitError", t, "", StatusOf(error), Null)>>
End(t) == <<Ev("end", t, "", 0, Null)>>

\* the dispatch of a call: the server invokes the handler of the method
Arrive(shape, path, exists, mock, listening) ==
    /\ phase = "setup"
    /\ phase' = "serving"
    /\ call' = [shape |-> shape, path |-> path, exists |-> exists, mock |-> mock,
                listening |-> listening]
    /\ UNCHANGED <<hooks, regLog, now, timers, requests, nmsg, ended, pvars>>

-----------------------------------------------------------------------------
(* unaryHandler *)

\* the handler is invoked: startTime, the hook lists, then the onRequest loop
unaryHandler(path, exists, mock) ==
    /\ Arrive("unary", path, exists, mock, FALSE)
    /\ tasks' = (0 :> NewTask("unary", "onRequest", 0))
    /\ cur' = 0
    /\ UNCHANGED <<startTime, log, metrics>>

\* try { if (fs.existsSync(mockFilePath)) { parse, JSON.parse, processResponse
unaryRender(t) ==
    /\ t \in DOMAIN tasks
    /\ cur = t
    /\ tasks[t].kind = "unary"
    /\ tasks[t].pc = "resolve"
    /\ call.exists
    /\ IF call.mock.throws \/ call.mock.segs[1].k = "bad"
       THEN Step(t, [tasks[t] EXCEPT !.pc = "catch", !.exc = PlainError], t,
                 <<Ev("render", t, "failed", 0, Num(0))>>)
       ELSE Step(t, [tasks[t] EXCEPT !.pc = "beforeResponse",
                        !.res = processResponse(Render(call.mock.segs[1], Num(0)))], t,
                 <<Ev("render", t, "", 0, Num(0))>>)
    /\ UNCHANGED <<timers, requests, startTime>>

\* } else { callback(error, {}); collectMetrics(..., "unary") }
unaryNotFound(t) ==
    /\ t \in DOMAIN tasks
    /\ cur = t
    /\ tasks[t].kind = "unary"
    /\ tasks[t].pc = "resolve"
    /\ ~call.exists
    /\ LET error == StatusObj(NOT_FOUND)
       IN  Step(t, [tasks[t] EXCEPT !.pc = "done"], None,
                Callback(t, error, <<>>, Null)
                    \o Metrics(t, tasks[t].start, error, "unary"))
    /\ UNCHANGED <<timers, requests, startTime>>

\* after the sleep: sendMetadata, callback, collectMetrics
unarySend(t) ==
    /\ t \in DOMAIN tasks
    /\ cur = t
    /\ tasks[t].kind = "unary"
    /\ tasks[t].pc = "send"
    /\ LET res == tasks[t].res
       IN  Step(t, [tasks[t] EXCEPT !.pc = "afterResponse"], t,
                SendHeaders(t, res)
                    \o Callback(t, res.error, res.processedResponse, res.trailers)
                    \o Metrics(t, tasks[t].start, res.error, "unary"))
    /\ UNCHANGED <<timers, requests, startTime>>

\* catch (error) { callback(errorObj, {}); collectMetrics(...) }
unaryCatch(t) ==
    /\ t \in DOMAIN tasks
    /\ cur = t
    /\ tasks[t].kind = "unary"
    /\ tasks[t].pc = "catch"
    /\ LET errorObj == StatusObj(INTERNAL)
       IN  Step(t, [tasks[t] EXCEPT !.pc = "done"], None,
                Callback(t, errorObj, <<>>, Null)
                    \o Metrics(t, tasks[t].start, errorObj, "unary"))
    /\ UNCHANGED <<timers, requests, startTime>>

-----------------------------------------------------------------------------
(* serverSideStreamingHandler *)

serverSideStreamingHandler(path, exists, mock) ==
    /\ Arrive("server-stream", path, exists, mock, FALSE)
    /\ tasks' = (0 :> NewTask("server-stream", "onRequest", 0))
    /\ cur' = 0
    /\ UNCHANGED <<startTime, log, metrics>>

\* if (fs.existsSync(mockFilePath)) { try { content = helpers.parse(...);
\* streamArr = content.split("====") : n counts the callbacks forEach called
sstreamRender(t) ==
    /\ t \in DOMAIN tasks
    /\ cur = t
    /\ tasks[t].kind = "server-stream"
    /\ tasks[t].pc = "resolve"
    /\ call.exists
    /\ IF call.mock.throws
       THEN Step(t, [tasks[t] EXCEPT !.pc = "catch", !.exc = PlainError], t,
                 <<Ev("render", t, "failed", 0, Num(0))>>)
       ELSE Step(t, [tasks[t] EXCEPT !.pc = "forEach", !.n = 0], t,
                 <<Ev("render", t, "", 0, Num(0))>>)
    /\ UNCHANGED <<timers, requests, startTime>>

\* streamArr.forEach(async (stream, index) => ...): forEach calls the
\* callback of the next segment, which runs up to its first await
sstreamForEach(t) ==
    /\ t \in DOMAIN tasks
    /\ cur = t
    /\ tasks[t].kind = "server-stream"
    /\ tasks[t].pc = "forEach"
    /\ tasks[t].n < Len(call.mock.segs)
    /\ LET index == tasks[t].n + 1
       IN  /\ tasks' = [tasks EXCEPT ![t].n = index] @@
                            (index :> NewTask("chunk", "parse", index))
           /\ cur' = index
    /\ UNCHANGED <<hooks, regLog, phase, call, now, timers, requests, startTime,
                   nmsg, ended, log, metrics, pvars>>

\* forEach returns: the try block and the handler are over
sstreamForEachEnd(t) ==
    /\ t \in DOMAIN tasks
    /\ cur = t
    /\ tasks[t].kind = "server-stream"
    /\ tasks[t].pc = "forEach"
    /\ tasks[t].n = Len(call.mock.segs)
    /\ Step(t, [tasks[t] EXCEPT !.pc = "done"], None, <<>>)
    /\ UNCHANGED <<timers, requests, startTime>>

\* the callback of a segment: JSON.parse(stream), processResponse.  A throw
\* inside the async callback rejects the promise forEach discards.
chunkParse(t) ==
    /\ t \in DOMAIN tasks
    /\ cur = t
    /\ tasks[t].kind = "chunk"
    /\ tasks[t].pc = "parse"
    /\ IF call.mock.segs[tasks[t].n].k = "bad"
       THEN Step(t, [tasks[t] EXCEPT !.pc = "rejected", !.exc = PlainError], Yield(t),
                 <<Ev("parse", t, "failed", tasks[t].n, Null)>>)
       ELSE Step(t, [tasks[t] EXCEPT !.pc = "beforeResponse",
                        !.res = processResponse(Render(call.mock.segs[tasks[t].n], Num(0)))],
                 t, <<Ev("parse", t, "", tasks[t].n, Null)>>)
    /\ UNCHANGED <<timers, requests, startTime>>

\* after the sleep: sendMetadata, emit, write, sendMetadata, call.end() for
\* the last index, collectMetrics
chunkSend(t) ==
    /\ t \in DOMAIN tasks
    /\ cur = t
    /\ tasks[t].kind = "chunk"
    /\ tasks[t].pc = "send"
    /\ LET res == tasks[t].res
       IN  Step(t, [tasks[t] EXCEPT !.pc = "afterResponse"], t,
                SendHeaders(t, res) \o WriteChunk(t, res)
                    \o (IF tasks[t].n = Len(call.mock.segs) THEN End(t) ELSE <<>>)
                    \o Metrics(t, tasks[0].start, res.error, "server-stream"))
    /\ UNCHANGED <<timers, requests, startTime>>

\* catch (error) { call.emit("error", errorObj); call.end(); collectMetrics }
sstreamCatch(t) ==
    /\ t \in DOMAIN tasks
    /\ cur = t
    /\ tasks[t].kind = "server-stream"
    /\ tasks[t].pc = "catch"
    /\ LET errorObj == StatusObj(INTERNAL)
       IN  Step(t, [tasks[t] EXCEPT !.pc = "done"], None,
                EmitError(t, errorObj) \o End(t)
                    \o Metrics(t, tasks[t].start, errorObj, "server-stream"))
    /\ UNCHANGED <<timers, requests, startTime>>

\* } else { call.write(error); call.end(); collectMetrics }
sstreamNotFound(t) ==
    /\ t \in DOMAIN tasks
    /\ cur = t
    /\ tasks[t].kind = "server-stream"
    /\ tasks[t].pc = "resolve"
    /\ ~call.exists
    /\ LET error == StatusObj(NOT_FOUND)
       IN  Step(t, [tasks[t] EXCEPT !.pc = "done"], None,
                WriteError(t, error) \o End(t)
                    \o Metrics(t, tasks[t].start, error, "server-stream"))
    /\ UNCHANGED <<timers, requests, startTime>>

-----------------------------------------------------------------------------
(* clientSideStreamingHandler *)

\* the handler registers the two listeners and returns
clientSideStreamingHandler(path, exists, mock) ==
    /\ Arrive("client-stream", path, exists, mock, TRUE)
    /\ tasks' = <<>>
    /\ cur' = None
    /\ UNCHANGED <<startTime, log, metrics>>

\* an inbound message arrives: the stream emits 'data' to the listener
OnData(kind) ==
    /\ phase = "serving"
    /\ cur = None
    /\ call.listening
    /\ ~ended
    /\ nmsg < MaxMsgs
    /\ nmsg' = nmsg + 1
    /\ tasks' = tasks @@ ((nmsg + 1) :> NewTask(kind, "onRequest", nmsg + 1))
    /\ cur' = nmsg + 1
    /\ UNCHANGED <<hooks, regLog, phase, call, now, timers, requests, startTime,
                   ended, log, metrics, pvars>>

\* the inbound stream ends: the stream emits 'end' to the listener
OnEnd(kind, pc) ==
    /\ phase = "serving"
    /\ cur = None
    /\ call.listening
    /\ ~ended
    /\ ended' = TRUE
    /\ tasks' = tasks @@ (0 :> NewTask(kind, pc, 0))
    /\ cur' = 0
    /\ UNCHANGED <<hooks, regLog, phase, call, now, timers, requests, startTime,
                   nmsg, log, metrics, pvars>>

\* call.on('data', async (data) => { onRequest hooks ...
clientOnData ==
    /\ call.shape = "client-stream"
    /\ OnData("client-data")

\* ... requests.push(data) })
clientPush(t) ==
    /\ t \in DOMAIN tasks
    /\ cur = t
    /\ tasks[t].kind = "client-data"
    /\ tasks[t].pc = "push"
    /\ requests' = Append(requests, Num(tasks[t].n))
    /\ Step(t, [tasks[t] EXCEPT !.pc = "done"], None, <<>>)
    /\ UNCHANGED <<timers, startTime>>

\* call.on('end', async () => { const startTime = process.hrtime() ...
clientOnEnd ==
    /\ call.shape = "client-stream"
    /\ OnEnd("client-end", "resolve")

\* try { if (fs.existsSync(mockFilePath)) { parse against requests, JSON.parse,
\* processResponse
clientRender(t) ==
    /\ t \in DOMAIN tasks
    /\ cur = t
    /\ tasks[t].kind = "client-end"
    /\ tasks[t].pc = "resolve"
    /\ call.exists
    /\ IF call.mock.throws \/ call.mock.segs[1].k = "bad"
       THEN Step(t, [tasks[t] EXCEPT !.pc = "catch", !.exc = PlainError], t,
                 <<Ev("render", t, "failed", 0, Arr(requests))>>)
       ELSE Step(t, [tasks[t] EXCEPT !.pc = "beforeResponse",
                        !.res = processResponse(Render(call.mock.segs[1], Arr(requests)))],
                 t, <<Ev("render", t, "", 0, Arr(requests))>>)
    /\ UNCHANGED <<timers, requests, startTime>>

\* } else { callback(error, {}); collectMetrics(..., "client-stream") }
clientNotFound(t) ==
    /\ t \in DOMAIN tasks
    /\ cur = t
    /\ tasks[t].kind = "client-end"
    /\ tasks[t].pc = "resolve"
    /\ ~call.exists
    /\ LET error == StatusObj(NOT_FOUND)
       IN  Step(t, [tasks[t] EXCEPT !.pc = "done"], None,
                Callback(t, error, <<>>, Null)
                    \o Metrics(t, tasks[t].start, error, "client-stream"))
    /\ UNCHANGED <<timers, requests, startTime>>

\* after the sleep: sendMetadata, callback, collectMetrics
clientSend(t) ==
    /\ t \in DOMAIN tasks
    /\ cur = t
    /\ tasks[t].kind = "client-end"
    /\ tasks[t].pc = "send"
    /\ LET res == tasks[t].res
       IN  Step(t, [tasks[t] EXCEPT !.pc = "afterResponse"], t,
                SendHeaders(t, res)
                    \o Callback(t, res.error, res.processedResponse, res.trailers)
                    \o Metrics(t, tasks[t].start, res.error, "client-stream"))
    /\ UNCHANGED <<timers, requests, startTime>>

\* catch (error) { callback(err, {}); collectMetrics(startTime, error, ...) }:
\* the sample is taken from the caught exception, not from err
clientCatch(t) ==
    /\ t \in DOMAIN tasks
    /\ cur = t
    /\ tasks[t].kind = "client-end"
    /\ tasks[t].pc = "catch"
    /\ LET err == StatusObj(INTERNAL)
       IN  Step(t, [tasks[t] EXCEPT !.pc = "done"], None,
                Callback(t, err, <<>>, Null)
                    \o Metrics(t, tasks[t].start, tasks[t].exc, "client-stream"))
    /\ UNCHANGED <<timers, requests, startTime>>

-----------------------------------------------------------------------------
(* bidiStreamingHandler *)

\* the listeners are registered whether the mock file exists or not
bidiStreamingHandlerListening(path, exists, mock) ==
    /\ Arrive("bidi-stream", path, exists, mock, TRUE)
    /\ startTime' = now
    /\ tasks' = <<>>
    /\ cur' = None
    /\ LET error == StatusObj(NOT_FOUND)
           evs == IF exists THEN <<>>
                  ELSE WriteError(None, error) \o End(None) \o
                       <<Ev("metrics", None, "bidi-stream", SampleCode(error),
                            collectMetrics(now, error, path, "bidi-stream"))>>
       IN  /\ log' = log \o evs
           /\ metrics' = metrics \o Samples(evs)

\* the handler is invoked: let startTime = process.hrtime(); when the mock
\* file is missing it writes the error, ends the stream and returns before
\* any listener is registered, else it registers the two listeners
bidiStreamingHandler(path, exists, mock) ==
    /\ Arrive("bidi-stream", path, exists, mock, exists)
    /\ startTime' = now
    /\ tasks' = <<>>
    /\ cur' = None
    /\ LET error == StatusObj(NOT_FOUND)
           evs == IF exists THEN <<>>
                  ELSE WriteError(None, error) \o End(None) \o
                       <<Ev("metrics", None, "bidi-stream", SampleCode(error),
                            collectMetrics(now, error, path, "bidi-stream"))>>
       IN  /\ log' = log \o evs
           /\ metrics' = metrics \o Samples(evs)

\* the handler returned before call.on(...): an inbound message, and the
\* end of the inbound stream, reach no listener
NoListenerData ==
    /\ phase = "serving"
    /\ call.shape = "bidi-stream"
    /\ ~call.listening
    /\ ~ended
    /\ nmsg < MaxMsgs
    /\ nmsg' = nmsg + 1
    /\ UNCHANGED <<hooks, regLog, phase, call, tasks, cur, now, timers, requests,
                   startTime, ended, log, metrics, pvars>>

NoListenerEnd ==
    /\ phase = "serving"
    /\ call.shape = "bidi-stream"
    /\ ~call.listening
    /\ ~ended
    /\ ended' = TRUE
    /\ UNCHANGED <<hooks, regLog, phase, call, tasks, cur, now, timers, requests,
                   startTime, nmsg, log, metrics, pvars>>

\* call.on('data', async (data) => { onRequest hooks ...
bidiOnData ==
    /\ call.shape = "bidi-stream"
    /\ OnData("bidi-data")

\* the `data` sub-document is rendered against the accumulation buffer
bidiHandleBuffer(t) ==
    /\ t \in DOMAIN tasks
    /\ cur = t
    /\ tasks[t].kind = "bidi-data"
    /\ tasks[t].pc = "handle"
    /\ startTime' = now
    /\ requests' = Append(requests, Num(tasks[t].n))
    /\ IF call.mock.throws \/ call.mock.segs[1].k # "doc"
       THEN Step(t, [tasks[t] EXCEPT !.pc = "catch", !.exc = PlainError, !.start = now], t,
                 <<Ev("render", t, "failed", tasks[t].n, Arr(requests'))>>)
       ELSE Step(t, [tasks[t] EXCEPT !.pc = "beforeResponse", !.start = now,
                        !.res = processResponse(Render(call.mock.segs[1], Arr(requests')))],
                 t, <<Ev("render", t, "", tasks[t].n, Arr(requests'))>>)
    /\ UNCHANGED timers

\* startTime = process.hrtime(); try { requests.push(data); parse against
\* data, JSON.parse, processResponse(response.data)
bidiHandle(t) ==
    /\ t \in DOMAIN tasks
    /\ cur = t
    /\ tasks[t].kind = "bidi-data"
    /\ tasks[t].pc = "handle"
    /\ startTime' = now
    /\ requests' = Append(requests, Num(tasks[t].n))
    /\ IF call.mock.throws \/ call.mock.segs[1].k # "doc"
       THEN Step(t, [tasks[t] EXCEPT !.pc = "catch", !.exc = PlainError, !.start = now], t,
                 <<Ev("render", t, "failed", tasks[t].n, Num(tasks[t].n))>>)
       ELSE Step(t, [tasks[t] EXCEPT !.pc = "beforeResponse", !.start = now,
                        !.res = processResponse(Render(call.mock.segs[1], Num(tasks[t].n)))],
                 t, <<Ev("render", t, "", tasks[t].n, Num(tasks[t].n))>>)
    /\ UNCHANGED timers

\* after the sleep: sendMetadata, emit, write, sendMetadata, collectMetrics
\* with the shared startTime
bidiSend(t) ==
    /\ t \in DOMAIN tasks
    /\ cur = t
    /\ tasks[t].kind = "bidi-data"
    /\ tasks[t].pc = "send"
    /\ LET res == tasks[t].res
       IN  Step(t, [tasks[t] EXCEPT !.pc = "afterResponse"], t,
                SendHeaders(t, res) \o WriteChunk(t, res)
                    \o Metrics(t, startTime, res.error, "bidi-stream"))
    /\ UNCHANGED <<timers, requests, startTime>>

\* catch (error) { call.emit('error', err); collectMetrics; call.end() }
bidiCatch(t) ==
    /\ t \in DOMAIN tasks
    /\ cur = t
    /\ tasks[t].kind = "bidi-data"
    /\ tasks[t].pc = "catch"
    /\ LET err == StatusObj(INTERNAL)
       IN  Step(t, [tasks[t] EXCEPT !.pc = "done"], None,
                EmitError(t, err) \o Metrics(t, startTime, err, "bidi-stream") \o End(t))
    /\ UNCHANGED <<timers, requests, startTime>>

\* call.on('end', async () => { ...
bidiOnEnd ==
    /\ call.shape = "bidi-stream"
    /\ OnEnd("bidi-end", "handle")

\* startTime = process.hrtime(); try { parse against requests, JSON.parse;
\* if (response.end) processResponse(response.end) and sleep, else
\* collectMetrics with { code: OK } and call.end()
bidiEndHandle(t) ==
    /\ t \in DOMAIN tasks
    /\ cur = t
    /\ tasks[t].kind = "bidi-end"
    /\ tasks[t].pc = "handle"
    /\ startTime' = now
    /\ IF call.mock.throws \/ call.mock.segs[1].k = "bad"
       THEN Step(t, [tasks[t] EXCEPT !.pc = "catch", !.exc = PlainError, !.start = now], t,
                 <<Ev("render", t, "failed", 0, Arr(requests))>>)
       ELSE IF call.mock.segs[2].k = "doc"
       THEN Step(t, [tasks[t] EXCEPT !.pc = "sleep", !.start = now,
                        !.res = processResponse(Render(call.mock.segs[2], Arr(requests)))],
                 t, <<Ev("render", t, "", 0, Arr(requests))>>)
       ELSE Step(t, [tasks[t] EXCEPT !.pc = "done", !.start = now], None,
                 <<Ev("render", t, "", 0, Arr(requests))>>
                     \o Metrics(t, now, StatusObj(OK), "bidi-stream") \o End(t))
    /\ UNCHANGED <<timers, requests>>

\* after the sleep: sendMetadata, emit, write, sendMetadata, collectMetrics;
\* the branch does not call call.end()
bidiEndSend(t) ==
    /\ t \in DOMAIN tasks
    /\ cur = t
    /\ tasks[t].kind = "bidi-end"
    /\ tasks[t].pc = "send"
    /\ LET res == tasks[t].res
       IN  Step(t, [tasks[t] EXCEPT !.pc = "done"], None,
                SendHeaders(t, res) \o WriteChunk(t, res)
                    \o Metrics(t, startTime, res.error, "bidi-stream"))
    /\ UNCHANGED <<timers, requests, startTime>>

\* catch (error) { call.emit('error', err); call.end(); collectMetrics }
bidiEndCatch(t) ==
    /\ t \in DOMAIN tasks
    /\ cur = t
    /\ tasks[t].kind = "bidi-end"
    /\ tasks[t].pc = "catch"
    /\ LET err == StatusObj(INTERNAL)
       IN  Step(t, [tasks[t] EXCEPT !.pc = "done"], None,
                EmitError(t, err) \o End(t) \o Metrics(t, startTime, err, "bidi-stream"))
    /\ UNCHANGED <<timers, requests, startTime>>

-----------------------------------------------------------------------------
(* The clock *)

Running == {t \in DOMAIN tasks : tasks[t].pc \notin {"done", "rejected"}}

\* nothing of the call is left to run and nothing more arrives
Quiescent ==
    /\ phase = "serving"
    /\ cur = None
    /\ Running = {}
    /\ call.listening => ended

\* Time passes while a timer is pending, never past a timer that is due.
Tick ==
    /\ phase = "serving"
    /\ cur = None
    /\ Sleeping # {}
    /\ \A t \in Sleeping : tasks[t].wake > now
    /\ now' = now + 1
    /\ UNCHANGED <<hooks, regLog, phase, call, tasks, cur, timers, requests,
                   startTime, nmsg, ended, log, metrics, pvars>>

-----------------------------------------------------------------------------
(* The specification of the server *)

IdleDoc == PlainDoc

Init ==
    /\ hooks = <<>>
    /\ regLog = <<>>
    /\ phase = "setup"
    /\ call = [shape |-> "none", path |-> "", exists |-> FALSE, mock |-> NoMock,
               listening |-> FALSE]
    /\ tasks = <<>>
    /\ cur = None
    /\ now = 0
    /\ timers = <<>>
    /\ requests = <<>>
    /\ startTime = 0
    /\ nmsg = 0
    /\ ended = FALSE
    /\ log = <<>>
    /\ metrics = <<>>
    /\ pdoc = IdleDoc
    /\ presults = <<>>
    /\ capIn = NoContext
    /\ capOut = NotCalled

TaskIds == 0..(MaxMsgs + MaxSegs)

Next ==
    \/ \E event \in Events : addHook(ServedPath, event)
    \/ \E mock \in Mocks("unary") : unaryHandler(ServedPath, TRUE, mock)
    \/ unaryHandler(ServedPath, FALSE, NoMock)
    \/ \E mock \in Mocks("server-stream") :
          serverSideStreamingHandler(ServedPath, TRUE, mock)
    \/ serverSideStreamingHandler(ServedPath, FALSE, NoMock)
    \/ \E mock \in Mocks("client-stream") :
          clientSideStreamingHandler(ServedPath, TRUE, mock)
    \/ clientSideStreamingHandler(ServedPath, FALSE, NoMock)
    \/ \E mock \in Mocks("bidi-stream") :
          bidiStreamingHandler(ServedPath, TRUE, mock)
    \/ bidiStreamingHandler(ServedPath, FALSE, NoMock)
    \/ \E t \in TaskIds : HookInvoke(t)
    \/ \E t \in TaskIds : HookResolves(t)
    \/ \E t \in TaskIds, exc \in HookErrors : HookRejects(t, exc)
    \/ \E t \in TaskIds : HookLoopExit(t)
    \/ \E t \in TaskIds : Sleep(t)
    \/ \E t \in TaskIds : TimerFires(t)
    \/ \E t \in TaskIds : unaryRender(t)
    \/ \E t \in TaskIds : unaryNotFound(t)
    \/ \E t \in TaskIds : unarySend(t)
    \/ \E t \in TaskIds : unaryCatch(t)
    \/ \E t \in TaskIds : sstreamRender(t)
    \/ \E t \in TaskIds : sstreamForEach(t)
    \/ \E t \in TaskIds : sstreamForEachEnd(t)
    \/ \E t \in TaskIds : chunkParse(t)
    \/ \E t \in TaskIds : chunkSend(t)
    \/ \E t \in TaskIds : sstreamCatch(t)
    \/ \E t \in TaskIds : sstreamNotFound(t)
    \/ clientOnData
    \/ \E t \in TaskIds : clientPush(t)
    \/ clientOnEnd
    \/ \E t \in TaskIds : clientRender(t)
    \/ \E t \in TaskIds : clientNotFound(t)
    \/ \E t \in TaskIds : clientSend(t)
    \/ \E t \in TaskIds : clientCatch(t)
    \/ NoListenerData
    \/ NoListenerEnd
    \/ bidiOnData
    \/ \E t \in TaskIds : bidiHandle(t)
    \/ \E t \in TaskIds : bidiSend(t)
    \/ \E t \in TaskIds : bidiCatch(t)
    \/ bidiOnEnd
    \/ \E t \in TaskIds : bidiEndHandle(t)
    \/ \E t \in TaskIds : bidiEndSend(t)
    \/ \E t \in TaskIds : bidiEndCatch(t)
    \/ Tick

Spec == Init /\ [][Next]_vars

-----------------------------------------------------------------------------
(* The specification of the directive processor alone: processResponse is
   applied, twice in a row, to the same document object. *)

ProcInit ==
    /\ hooks = <<>>
    /\ regLog = <<>>
    /\ phase = "setup"
    /\ call = [shape |-> "none", path |-> "", exists |-> FALSE, mock |-> NoMock,
               listening |-> FALSE]
    /\ tasks = <<>>
    /\ cur = None
    /\ now = 0
    /\ timers = <<>>
    /\ requests = <<>>
    /\ startTime = 0
    /\ nmsg = 0
    /\ ended = FALSE
    /\ log = <<>>
    /\ metrics = <<>>
    /\ pdoc \in Docs
    /\ presults = <<>>
    /\ capIn = NoContext
    /\ capOut = NotCalled

\* r = processResponse(pdoc): arg is the document as it was passed, res the
\* result; the object pdoc is left as the deletes leave it
Process ==
    /\ Len(presults) < 2
    /\ presults' = Append(presults, [arg |-> pdoc, res |-> processResponse(pdoc)])
    /\ pdoc' = processResponse(pdoc).processedResponse
    /\ UNCHANGED <<hvars, capIn, capOut>>

ProcNext == Process

ProcSpec == ProcInit /\ [][ProcNext]_vars

-----------------------------------------------------------------------------
(* The specification of the hook registry alone: the embedding program
   registers hooks, for any method path, before the server serves. *)

RegNext == \E path \in Paths, event \in Events : addHook(path, event)

RegSpec == Init /\ [][RegNext]_vars

-----------------------------------------------------------------------------
(* The specification of the capture helper alone: the template engine
   invokes RequestHelper once with a context. *)

CapInit ==
    /\ hooks = <<>>
    /\ regLog = <<>>
    /\ phase = "setup"
    /\ call = [shape |-> "none", path |-> "", exists |-> FALSE, mock |-> NoMock,
               listening |-> FALSE]
    /\ tasks = <<>>
    /\ cur = None
    /\ now = 0
    /\ timers = <<>>
    /\ requests = <<>>
    /\ startTime = 0
    /\ nmsg = 0
    /\ ended = FALSE
    /\ log = <<>>
    /\ metrics = <<>>
    /\ pdoc = IdleDoc
    /\ presults = <<>>
    /\ capIn \in Contexts
    /\ capOut = NotCalled

\* {{capture from=... key=... using=... selector=...}}
Capture ==
    /\ capOut = NotCalled
    /\ capOut' = RequestHelper(capIn)
    /\ UNCHANGED <<hvars, pdoc, presults, capIn>>

CapNext == Capture

CapSpec == CapInit /\ [][CapNext]_vars

-----------------------------------------------------------------------------
(* Observations on the history of the call *)

Select(op) == SelectSeq(log, LAMBDA e : e.op = op)
Count(op) == Len(Select(op))

\* the positions of the log holding an event of the kind `op`
Positions(op) == {i \in 1..Len(log) : log[i].op = op}

\* the client got a response carrying the status `code`
Answered(code) ==
    \/ \E i \in Positions("callback") : log[i].n = code
    \/ \E i \in Positions("emitError") : log[i].n = code
    \/ \E i \in Positions("write") : log[i].ev = "error" /\ log[i].n = code

\* the call got its terminal outcome: the callback, or the end of the stream
Terminated ==
    IF call.shape \in {"unary", "client-stream"}
    THEN Count("callback") >= 1
    ELSE Count("end") >= 1

-----------------------------------------------------------------------------
(* Claims *)

\* C1: in a unary call the terminal callback is invoked exactly once on every
\* path: never twice, and once when the call has nothing left to run.
C1_CallbackExactlyOnce ==
    call.shape = "unary" =>
        /\ Count("callback") <= 1
        /\ Quiescent => Count("callback") = 1

\* C2: in a server-streaming call the chunks are written in the order of
\* their segments, and the chunk of segment n+1 is never written before the
\* chunk of segment n.
C2_ChunksInOrder ==
    call.shape = "server-stream" =>
        \A i, j \in Positions("write") :
            (log[i].ev = "" /\ log[j].ev = "" /\ i < j) => log[i].n < log[j].n

\* C3: every call gets a terminal outcome: when nothing of the call is left
\* to run (and the inbound stream has ended), the callback was invoked or the
\* stream was closed.
C3_TerminalOutcome == Quiescent => Terminated

\* C4: in a bidi-streaming call whose mock file exists and renders, once the
\* end listener has run: with an `end` sub-document exactly one final chunk
\* was written and the stream was closed after it; without, the stream was
\* closed and no final chunk written.
C4_EndOfBidiStream ==
    (/\ call.shape = "bidi-stream" /\ call.exists /\ Quiescent
     /\ ~call.mock.throws /\ call.mock.segs[1].k # "bad") =>
        LET final == {i \in Positions("write") : log[i].t = 0}
        IN  IF call.mock.segs[2].k = "doc"
            THEN /\ Cardinality(final) = 1
                 /\ \A i \in final : \E j \in Positions("end") : i < j
            ELSE final = {} /\ Count("end") >= 1

\* C5: for a method path with no mock file every shape handler answers
\* NOT_FOUND and records exactly one sample, labeled NOT_FOUND, the method
\* path and the RPC type of the handler.
C5_NotFoundOutcome ==
    (phase = "serving" /\ ~call.exists /\ Quiescent) =>
        /\ Answered(NOT_FOUND)
        /\ Terminated
        /\ Len(metrics) = 1
        /\ metrics[1].code = NOT_FOUND
        /\ metrics[1].method = call.path
        /\ metrics[1].type = call.shape

\* the task t met a failure of the rendering or of JSON.parse
RenderFailed(t) ==
    \E i \in 1..Len(log) :
        log[i].t = t /\ log[i].op \in {"render", "parse"} /\ log[i].ev = "failed"

\* C6: a failure of the rendering or of the JSON parsing (of any segment) is
\* caught by the handler: the task does not end rejected, the client gets an
\* INTERNAL error and a sample is recorded.
C6_RenderFailureCaught ==
    \A t \in DOMAIN tasks :
        (RenderFailed(t) /\ Quiescent) =>
            /\ tasks[t].pc # "rejected"
            /\ Answered(INTERNAL)
            /\ Terminated
            /\ metrics # <<>>

\* C7: a raising hook is handled like a render / parse failure: the client
\* gets an INTERNAL error after the raise, a sample is recorded, and nothing
\* is rendered by the task after one of its onRequest hooks raised.
C7_HookFailureHandled ==
    \A i \in Positions("hookRaise") :
        /\ Quiescent =>
              /\ \E j \in i..Len(log) :
                    log[j].op \in {"callback", "emitError"} /\ log[j].n = INTERNAL
              /\ \E j \in i..Len(log) : log[j].op = "metrics" /\ log[j].n = INTERNAL
        /\ log[i].ev = "onRequest" =>
              ~\E j \in i..Len(log) : log[j].op = "render" /\ log[j].t = log[i].t

\* the hook calls, completions and raises of the loop of `event` in task t
HookEvents(t, event) ==
    SelectSeq(log, LAMBDA e :
        e.t = t /\ e.ev = event /\ e.op \in {"hookStart", "hookEnd", "hookRaise"})

\* the callbacks registered for (path, event), in the order of the addHook calls
RegOrder(path, event) ==
    LET rs == SelectSeq(regLog, LAMBDA r : r.path = path /\ r.event = event)
    IN  [i \in 1..Len(rs) |-> rs[i].fn]

\* C8: for one response the hooks of an event run in registration order and
\* hook i+1 does not start before hook i has completed: the hook events of a
\* loop are start(f1), end(f1), start(f2), end(f2), ... with f1, f2, ... the
\* callbacks in the order they were registered, and a raise ends the loop.
C8_HooksSequentialInOrder ==
    \A t \in DOMAIN tasks, event \in Events :
        LET h == HookEvents(t, event)
            r == RegOrder(call.path, event)
        IN  /\ Len(h) <= 2 * Len(r)
            /\ \A i \in 1..Len(h) :
                  IF i % 2 = 1
                  THEN h[i].op = "hookStart" /\ h[i].n = r[(i + 1) \div 2]
                  ELSE /\ h[i].op \in {"hookEnd", "hookRaise"}
                       /\ h[i].n = h[i - 1].n
                       /\ h[i].op = "hookRaise" => i = Len(h)

\* two hooks of one event have run to completion for one response
C8_Witness ==
    \E t \in DOMAIN tasks, event \in Events :
        /\ Len(HookEvents(t, event)) = 4
        /\ HookEvents(t, event)[4].op = "hookEnd"

\* C9: the payload processResponse returns has none of the keys delay, error,
\* metadata, and the delay it returns is >= 0.
C9_PayloadHasNoDirectives ==
    \A i \in 1..Len(presults) :
        /\ DOMAIN presults[i].res.processedResponse \cap {"delay", "error", "metadata"} = {}
        /\ presults[i].res.delay.n >= 0

\* C10: processResponse leaves the document passed to it unchanged, and
\* processing the same document twice yields identical results.
C10_PureAndIdempotent ==
    /\ Len(presults) >= 1 => pdoc = presults[1].arg
    /\ Len(presults) = 2 => presults[1].res = presults[2].res

\* C11: the capture helper never raises: whatever from, key, using, selector,
\* request and metadata it is invoked with, it returns (a value or null).
C11_CaptureNeverRaises == capOut.k # "raise"

\* C12: in a client-streaming call the terminal callback is never invoked
\* before the inbound stream has ended, and it is invoked exactly once after
\* the end: never twice, and once when the call has nothing left to run.
C12_ClientCallbackOnceAfterEnd ==
    call.shape = "client-stream" =>
        /\ ~ended => Count("callback") = 0
        /\ Count("callback") <= 1
        /\ Quiescent => Count("callback") = 1

\* the list of (path, event) in the registry h
ListIn(h, path, event) ==
    IF path \in DOMAIN h /\ event \in DOMAIN h[path] THEN h[path][event] ELSE <<>>

\* C13: addHook(path, event, fn) appends fn at the end of the list of
\* (path, event), creating the path entry and the event list when absent, and
\* leaves the list of every other (path, event) pair as it was.
C13_AddHookAppends ==
    [][regLog' # regLog =>
          LET r == regLog'[Len(regLog')]
          IN  /\ r.path \in DOMAIN hooks'
              /\ r.event \in DOMAIN hooks'[r.path]
              /\ hooks'[r.path][r.event] = Append(ListIn(hooks, r.path, r.event), r.fn)
              /\ \A p \in Paths, e \in Events :
                    <<p, e>> # <<r.path, r.event>> =>
                        ListIn(hooks', p, e) = ListIn(hooks, p, e)]_vars

\* a callback was appended to a list that had one already
C13_Witness ==
    \E p \in Paths, e \in Events : Len(ListIn(hooks, p, e)) = 2

\* the base64 digits of a list of bytes, without padding
RECURSIVE Base64Encode(_)
Base64Encode(b) ==
    IF b = <<>> THEN <<>>
    ELSE IF Len(b) = 1 THEN <<b[1] \div 4, (b[1] % 4) * 16>>
    ELSE IF Len(b) = 2
    THEN <<b[1] \div 4, (b[1] % 4) * 16 + (b[2] \div 16), (b[2] % 16) * 4>>
    ELSE <<b[1] \div 4, (b[1] % 4) * 16 + (b[2] \div 16),
           (b[2] % 16) * 4 + (b[3] \div 64), b[3] % 64>>
         \o Base64Encode(SubSeq(b, 4, Len(b)))

\* the map `field` of the metadata of the document doc, Null when absent
MetadataMap(doc, field) ==
    IF "metadata" \in DOMAIN doc /\ doc["metadata"].t = "obj"
    THEN Get(doc["metadata"].o, field)
    ELSE Null

\* out is what the claim expects for the map: Null for no map, else the same
\* keys, the bytes the base64 text stands for under a key ending with -bin,
\* the value itself under any other key
MetadataAsClaimed(map, out) ==
    IF map = Null THEN out = Null
    ELSE /\ out.t = "obj"
         /\ DOMAIN out.o = DOMAIN map.o
         /\ \A key \in DOMAIN map.o :
               IF Len(key) >= 2 /\ key[Len(key)] = "bin"
               THEN out.o[key].t = "buf" /\ Base64Encode(out.o[key].b) = map.o[key].s
               ELSE out.o[key] = map.o[key]

\* C14: the headers and trailers processResponse returns hold, for every key
\* of metadata.headers / metadata.trailers, the base64-decoded bytes when the
\* key ends with -bin and the string unchanged otherwise; they have exactly
\* the keys of the document and are null when the map is absent.
C14_MetadataDecoded ==
    \A i \in 1..Len(presults) :
        /\ MetadataAsClaimed(MetadataMap(presults[i].arg, "headers"), presults[i].res.headers)
        /\ MetadataAsClaimed(MetadataMap(presults[i].arg, "trailers"), presults[i].res.trailers)

\* a document with headers and trailers, with and without -bin keys, was processed
C14_Witness ==
    \E i \in 1..Len(presults) :
        /\ presults[i].res.headers # Null
        /\ presults[i].res.trailers # Null
        /\ \E key \in DOMAIN presults[i].res.headers.o : presults[i].res.headers.o[key].t = "buf"
        /\ \E key \in DOMAIN presults[i].res.trailers.o : presults[i].res.trailers.o[key].t = "str"

\* what a handler issues on the call besides closing it
Issued == {"write", "sendMetadata", "emitError"}

\* nothing is issued on the call after the position i of the log
NothingAfter(i) == \A j \in (i + 1)..Len(log) : log[j].op \notin Issued

\* C15: in a server-streaming call whose k segments all parse and whose
\* hooks do not raise, the stream is closed at most once, a chunk callback
\* closes it only after all k chunks have been written, and nothing is
\* written, sent or signalled on the call after it was closed.
C15_StreamClosedLast ==
    (/\ call.shape = "server-stream"
     /\ \A n \in 1..Len(call.mock.segs) : call.mock.segs[n].k = "doc"
     /\ Positions("hookRaise") = {}) =>
        /\ Count("end") <= 1
        /\ \A i \in Positions("end") :
              /\ NothingAfter(i)
              /\ log[i].t # 0 =>
                    Cardinality({j \in 1..i : log[j].op = "write"}) = Len(call.mock.segs)

\* the inbound messages delivered so far, in arrival order
Delivered == Arr([k \in 1..nmsg |-> Num(k)])

\* C16: in a client-streaming call the mock is rendered, on stream end,
\* against every inbound message delivered before the end, each once and in
\* arrival order.
C16_ClientRendersAllMessages ==
    call.shape = "client-stream" =>
        \A i \in Positions("render") : log[i].v = Delivered

\* C17: in a bidi-streaming call whose mock has an `end` sub-document, the
\* end listener renders the mock against every inbound message delivered
\* before the end, in arrival order.
C17_BidiEndRendersAllMessages ==
    (call.shape = "bidi-stream" /\ call.exists /\ ~call.mock.throws) =>
        \A i \in Positions("render") :
            (log[i].t = 0 /\ log[i].ev = "" /\ call.mock.segs[2].k = "doc") =>
                log[i].v = Delivered

\* C18: in a bidi-streaming call the stream is closed at most once and
\* nothing is written, sent or signalled on the call after it was closed.
C18_BidiNothingAfterClose ==
    call.shape = "bidi-stream" =>
        /\ Count("end") <= 1
        /\ \A i \in Positions("end") : NothingAfter(i)

HookOps == {"hookStart", "hookEnd", "hookRaise"}

\* C19: within one call the hooks of one event run for one chunk or message
\* have all completed before the hooks of the same event start for another
\* chunk or message: once another task has started a hook of the event, the
\* first task has no hook event of that event any more.
C19_HooksOfEventDoNotOverlap ==
    call.shape \in {"server-stream", "bidi-stream"} =>
        \A i, j \in Positions("hookStart") :
            (i < j /\ log[i].ev = log[j].ev /\ log[i].t # log[j].t) =>
                ~\E k \in (j + 1)..Len(log) :
                    log[k].op \in HookOps /\ log[k].ev = log[i].ev /\ log[k].t = log[i].t

\* the status codes of the responses the task of the sample at position i
\* has sent since its previous sample
SentBefore(i) ==
    LET prev == {j \in 1..(i - 1) : log[j].op = "metrics" /\ log[j].t = log[i].t}
        from == IF prev = {} THEN 0 ELSE CHOOSE x \in prev : \A y \in prev : y <= x
    IN  {log[j].n : j \in {x \in (from + 1)..(i - 1) :
                            /\ log[x].t = log[i].t
                            /\ \/ log[x].op \in {"callback", "emitError"}
                               \/ log[x].op = "write" /\ log[x].ev = "error"}}

\* C20: every sample carries the status code of the response it accounts
\* for: the code of the status the handler sent, 0 when it sent no error.
C20_SampleCarriesStatusSent ==
    \A i \in Positions("metrics") :
        IF SentBefore(i) = {} THEN log[i].n = OK ELSE SentBefore(i) = {log[i].n}

\* C21: in a bidi-streaming call the latency of a sample recorded by the
\* handling of a message (or of the stream end) is measured from the start
\* of that handling: the sample's start is the time that handling took for
\* startTime.
C21_BidiLatencyFromOwnStart ==
    call.shape = "bidi-stream" =>
        \A i \in Positions("metrics") :
            log[i].t \in DOMAIN tasks => log[i].v.start = tasks[log[i].t].start

\* the step of the unary lifecycle an event of the log belongs to
Stage(e) ==
    CASE e.op \in HookOps /\ e.ev = "onRequest" -> 1
      [] e.op = "render" -> 2
      [] e.op \in HookOps /\ e.ev = "beforeResponse" -> 3
      [] e.op = "sleep" -> 4
      [] e.op = "wake" -> 5
      [] e.op = "sendMetadata" -> 6
      [] e.op = "callback" -> 7
      [] e.op = "metrics" -> 8
      [] OTHER -> 9

\* the hooks of `event` that have completed
Completed(event) ==
    Cardinality({i \in Positions("hookEnd") : log[i].ev = event})

\* a unary call that meets no failure
UnarySuccess ==
    /\ call.shape = "unary"
    /\ call.exists
    /\ Positions("hookRaise") = {}
    /\ \A i \in Positions("render") : log[i].ev = ""

\* C22: in a successful unary call the steps occur in this order, each
\* completed before the next starts: all onRequest hooks, rendering and
\* directive processing, all beforeResponse hooks, the delay, the headers
\* (only if present), the callback, the metrics record, all afterResponse
\* hooks; the callback comes after the delay has elapsed.
C22_UnaryStepOrder ==
    UnarySuccess =>
        /\ \A i, j \in 1..Len(log) : i < j => Stage(log[i]) <= Stage(log[j])
        /\ \A op \in {"render", "sleep", "wake", "callback", "metrics"} : Count(op) <= 1
        /\ Count("render") = 1 =>
              Completed("onRequest") = Len(HooksFor(call.path, "onRequest"))
        /\ Count("sleep") = 1 =>
              /\ Count("render") = 1
              /\ Completed("beforeResponse") = Len(HooksFor(call.path, "beforeResponse"))
              /\ Select("sleep")[1].n = tasks[0].res.delay.n
        /\ Count("wake") = 1 =>
              /\ Count("sleep") = 1
              /\ Select("wake")[1].v.n - Select("sleep")[1].v.n >= tasks[0].res.delay.n
        /\ Count("sendMetadata") >= 1 => Count("wake") = 1
        /\ Count("callback") = 1 =>
              /\ Count("wake") = 1
              /\ Count("sendMetadata") = IF Truthy(tasks[0].res.headers) THEN 1 ELSE 0
        /\ Count("metrics") = 1 => Count("callback") = 1
        /\ (\E i \in Positions("hookStart") : log[i].ev = "afterResponse") =>
              Count("metrics") = 1

\* a successful unary call with a delay, headers and an afterResponse hook
\* has run to its end
C22_Witness ==
    /\ UnarySuccess
    /\ Quiescent
    /\ Count("sleep") = 1 /\ Select("sleep")[1].n >= 1
    /\ Count("sendMetadata") = 1
    /\ Count("callback") = 1
    /\ Completed("afterResponse") >= 1

\* C23: in a bidi-streaming call whose mock file is absent at call start
\* the handler writes one not-found chunk, closes the stream and records one
\* sample, and nothing more happens for the call, whatever arrives: no
\* listener runs, no hook, no rendering, no write, no second close, no
\* further sample.
C23_BidiNotFoundIsFinal ==
    (phase = "serving" /\ call.shape = "bidi-stream" /\ ~call.exists) =>
        /\ Len(log) = 3
        /\ log[1].op = "write" /\ log[1].ev = "error" /\ log[1].n = NOT_FOUND
        /\ log[2].op = "end"
        /\ log[3].op = "metrics" /\ log[3].n = NOT_FOUND
        /\ Len(metrics) = 1
        /\ tasks = <<>>
        /\ cur = None

\* an inbound message arrived and the inbound stream ended after the
\* not-found answer
C23_Witness ==
    /\ phase = "serving" /\ call.shape = "bidi-stream" /\ ~call.exists
    /\ nmsg >= 1
    /\ ended
    /\ Count("end") = 1

\* the hooks of `event` the task t has completed before the position i
CompletedBy(t, event, i) ==
    Cardinality({j \in 1..(i - 1) :
                    log[j].t = t /\ log[j].op = "hookEnd" /\ log[j].ev = event})

\* C24: in a bidi-streaming call the final chunk, derived from the `end`
\* sub-document, goes through the lifecycle of a per-message chunk: all
\* beforeResponse hooks have run before it is written, and all afterResponse
\* hooks have run when the end listener is over.
C24_FinalChunkLifecycle ==
    call.shape = "bidi-stream" =>
        \A i \in Positions("write") :
            (log[i].t = 0 /\ log[i].ev = "") =>
                /\ CompletedBy(0, "beforeResponse", i)
                       = Len(HooksFor(call.path, "beforeResponse"))
                /\ tasks[0].pc = "done" =>
                       CompletedBy(0, "afterResponse", Len(log) + 1)
                           = Len(HooksFor(call.path, "afterResponse"))

\* the chunks the handling of the inbound message t has written
WritesOf(t) == {i \in Positions("write") : log[i].t = t /\ log[i].ev = ""}

\* the handling of the inbound message t met no failure
Succeeds(t) ==
    /\ ~RenderFailed(t)
    /\ ~\E i \in Positions("hookRaise") : log[i].t = t

\* C25: in a bidi-streaming call each inbound message whose processing
\* succeeds causes exactly one write of a `data`-derived chunk, and the
\* chunk is rendered from that message alone, not from the buffer nor from
\* the other messages of the call.
C25_OneChunkPerMessage ==
    call.shape = "bidi-stream" =>
        \A t \in DOMAIN tasks :
            tasks[t].kind = "bidi-data" =>
                /\ Cardinality(WritesOf(t)) <= 1
                /\ \A i \in Positions("render") : log[i].t = t => log[i].v = Num(t)
                /\ \A i \in WritesOf(t) :
                      /\ log[i].n = t
                      /\ log[i].v["req"] = Num(t)
                      /\ log[i].v["a"] = call.mock.segs[1].doc["a"]
                /\ (Succeeds(t) /\ tasks[t].pc \in {"afterResponse", "done"}) =>
                      Cardinality(WritesOf(t)) = 1

\* two inbound messages were handled at the same time and each got its chunk
C25_Witness ==
    /\ call.shape = "bidi-stream"
    /\ \E i \in WritesOf(1), j \in Positions("render") : log[j].t = 2 /\ j < i
    /\ WritesOf(2) # {}

====
